---- MODULE Spec2Model ----
(***************************************************************************)
(* A model of the post-processing pipeline of monte-carlo-brain-scattering: *)
(*   - SimulationMonteCarlo.initialize_input   (layer stack builder)       *)
(*   - SimulationMonteCarlo.mc / process_output (normalizer)               *)
(*   - SimulationMonteCarlo.get_analysis_data  (sampling + file write)     *)
(*   - StatisticalAnalyzer.__init__ / calculate / _merge_intervals and the *)
(*     reporting steps the dashboard runs after them.                      *)
(* Floating-point quantities are carried as scaled integers (fixed point); *)
(* the scale of each quantity is stated where it is introduced.           *)
(***************************************************************************)
EXTENDS Integers, Sequences, FiniteSets, TLC

VARIABLES
    ni_obs, ni_exp, merged,          \* _merge_intervals: arguments, result
    data, input,                     \* initialize_input: dictionary, result
    graphic_values, analyzer, pc,    \* main.py's analysis: observations, the
                                     \* StatisticalAnalyzer object, the script's position
    input_data, handed, arrays, output,  \* mc / process_output: the grid, the raw
                                     \* arrays as handed in, the array objects, the result
    mcs, file, df_p_only, written, fpc   \* get_analysis_data: the simulation object,
                                     \* P_reflectance.txt, the returned frame, the count
                                     \* of writes so far and of the rows the file held
                                     \* before the latest one, the script's position
VARIABLES
    hist, fit,                       \* _run_pearson_tests: the histogram counts and the
                                     \* expected counts N * p_i of both fits, the results
    lm_data, scheme_data             \* LayersManager: self.data, the aggregated dictionary

vars == <<ni_obs, ni_exp, merged, data, input, graphic_values, analyzer, pc,
          input_data, handed, arrays, output, mcs, file, df_p_only, written, fpc,
          hist, fit, lm_data, scheme_data>>

NoValue == [status |-> "unset"]

\* IEEE results of a division by zero: 1.0 / 0.0 and 0.0 * inf
PosInf == 2000 * 1000 * 1000
NaN == 0 - PosInf

\* x + y of two floats
FAdd(x, y) == IF x = NaN \/ y = NaN THEN NaN ELSE x + y

\* x >= y and x > y of two floats: False when either is nan
FGe(x, y) == x # NaN /\ y # NaN /\ x >= y
FGt(x, y) == x # NaN /\ y # NaN /\ x > y

Min2(a, b) == IF a <= b THEN a ELSE b
Max2(a, b) == IF a >= b THEN a ELSE b

RECURSIVE SumSeq(_)
SumSeq(s) == IF s = <<>> THEN 0 ELSE Head(s) + SumSeq(Tail(s))

\* Python's s[:k] for 0 <= k
Prefix(s, k) == SubSeq(s, 1, Min2(k, Len(s)))

\* all sequences over S of length 0..n
SeqsUpTo(S, n) == UNION {[1..k -> S] : k \in 0..n}

(***************************************************************************)
(* StatisticalAnalyzer._merge_intervals                                    *)
(***************************************************************************)
MaxBins == 4
MaxObs == 1
ExpValues == {0, 2, 3, 6}

MergeThreshold == 5

MergeReached_lower(c_exp) == FGe(c_exp, MergeThreshold - 1)
\* statistic.py:59   if c_exp >= 5
MergeReached(c_exp) == FGe(c_exp, MergeThreshold)

\* statistic.py:62   if c_exp > 0 and exp_m
MergeFolds(c_exp, exp_m) == FGt(c_exp, 0) /\ exp_m # <<>>

\* statistic.py:56-61, the loop over zip(ni_obs, ni_exp) from position k on
RECURSIVE MergeLoop(_, _, _, _, _, _, _)
MergeLoop(obs, exp, k, obs_m, exp_m, c_obs, c_exp) ==
    IF k > Min2(Len(obs), Len(exp))
    THEN [obs_m |-> obs_m, exp_m |-> exp_m, c_obs |-> c_obs, c_exp |-> c_exp]
    ELSE LET co == c_obs + obs[k]
             ce == FAdd(c_exp, exp[k])
         IN  IF MergeReached(ce)
             THEN MergeLoop(obs, exp, k + 1, Append(obs_m, co), Append(exp_m, ce), 0, 0)
             ELSE MergeLoop(obs, exp, k + 1, obs_m, exp_m, co, ce)

AddToLast_ignored(s, x) == s
\* statistic.py:63   obs_m[-1] += c_obs; exp_m[-1] += c_exp
AddToLast(s, x) == [s EXCEPT ![Len(s)] = @ + x]

\* statistic.py:53-64
MergeIntervals(obs, exp) ==
    LET r == MergeLoop(obs, exp, 1, <<>>, <<>>, 0, 0)
    IN  IF MergeFolds(r.c_exp, r.exp_m)
        THEN [obs_m |-> AddToLast(r.obs_m, r.c_obs), exp_m |-> AddToLast(r.exp_m, r.c_exp)]
        ELSE [obs_m |-> r.obs_m, exp_m |-> r.exp_m]

MergeIdle == ni_obs = <<>> /\ ni_exp = <<>> /\ merged = NoValue

InitMerge ==
    /\ \E k \in 0..MaxBins :
          /\ ni_obs \in [1..k -> 0..MaxObs]
          /\ ni_exp \in [1..k -> ExpValues]
    /\ merged = NoValue

DoMergeIntervals ==
    /\ merged = NoValue
    /\ merged' = MergeIntervals(ni_obs, ni_exp)
    /\ UNCHANGED <<ni_obs, ni_exp>>

(***************************************************************************)
(* SimulationMonteCarlo.initialize_input                                   *)
(* Refractive indices are in hundredths, thicknesses in tenths of a cm,    *)
(* cos_crit0 in thousandths.                                               *)
(***************************************************************************)
MaxNl == 2
NValues == {100, 137, 143}
DValues == {-2, 0, 3, 5}
NaStackValues == {0, 2}

\* np.sqrt: the floor of the square root of v, 0 <= v < 9 * 10^6
ISqrt(v) == CHOOSE r \in 0..3000 : r * r <= v /\ v < (r + 1) * (r + 1)

\* monte_carlo_simulation.py:46
CosCrit(n0, n1) ==
    IF n1 > n0 THEN ISqrt(1000000 - ((1000 * n0) \div n1) * ((1000 * n0) \div n1)) ELSE 0

\* monte_carlo_simulation.py:41-57, one pass of the loop body
LayerRecord(dt, ilayer) ==
    LET z1 == SumSeq(Prefix(dt.d, ilayer + 1))
        z0 == z1 - dt.d[ilayer + 1]
        n0 == dt.n[ilayer + 1]
        n1 == dt.n[ilayer + 2]
    IN  [n |-> n1, mua |-> dt.mua[ilayer + 1], mus |-> dt.mus[ilayer + 1],
         g |-> dt.g[ilayer + 1], z0 |-> z0, z1 |-> z1, cos_crit0 |-> CosCrit(n0, n1)]

\* Python raises IndexError at d[ilayer], n[ilayer + 1], mua[ilayer], ...
LayerIndexError(dt, ilayer) ==
    \/ ilayer + 1 > Len(dt.d)
    \/ ilayer + 2 > Len(dt.n)
    \/ ilayer + 1 > Len(dt.mua)

\* monte_carlo_simulation.py:28-64. The function holds no test of len(n) against
\* len(d) nor of a thickness; the exceptions it can raise are Python's own.
InitializeInput(dt) ==
    IF \E il \in 0..(dt.nl - 1) : LayerIndexError(dt, il)
    THEN [status |-> "IndexError", layers |-> <<>>]
    ELSE IF dt.na = 0 THEN [status |-> "ZeroDivisionError", layers |-> <<>>]
    ELSE IF dt.n = <<>> THEN [status |-> "IndexError", layers |-> <<>>]
    ELSE [status |-> "ok",
          layers |-> [il \in 1..dt.nl |-> LayerRecord(dt, il - 1)],
          nl |-> dt.nl, na |-> dt.na, da |-> 1571 \div dt.na,
          n_above |-> dt.n[1], n_below |-> dt.n[Len(dt.n)]]

StackIdle == data = NoValue /\ input = NoValue

InitStack ==
    /\ \E nl \in 0..MaxNl, n \in SeqsUpTo(NValues, MaxNl + 2),
          d \in SeqsUpTo(DValues, MaxNl), na \in NaStackValues :
          data = [nl |-> nl, n |-> n, d |-> d, na |-> na,
                  mua |-> [i \in 1..Len(d) |-> 18],
                  mus |-> [i \in 1..Len(d) |-> 19],
                  g |-> [i \in 1..Len(d) |-> 9]]
    /\ input = NoValue

\* SimulationMonteCarlo.__init__: self.input = self.initialize_input(input_data)
DoInitializeInput ==
    /\ input = NoValue
    /\ input' = InitializeInput(data)
    /\ UNCHANGED data

(***************************************************************************)
(* StatisticalAnalyzer.__init__ / calculate and main.py's reporting steps  *)
(* Observations are integers (one unit of the sampled quantity).  With     *)
(* K = 1 + 3.322 ln N in millionths (KMicro), the bin width is             *)
(* h = (x_max - x_min) / K.  Bin edges and midpoints are carried in edge   *)
(* units: a value x is x * 2 * KMicro(N), so that h is 2 * range * 10^6    *)
(* and h / 2 is range * 10^6, both exact integers.                         *)
(***************************************************************************)
MaxN == 5
MaxVal == 2

Million == 1000 * 1000

\* statistic.py:24   np.log(self.N), in thousandths
LnMilli(n) ==
    CASE n = 1 -> 0    [] n = 2 -> 693  [] n = 3 -> 1099 [] n = 4 -> 1386
      [] n = 5 -> 1609 [] n = 6 -> 1792 [] n = 7 -> 1946 [] n = 8 -> 2079
      [] n = 9 -> 2197 [] n = 10 -> 2303 [] n = 11 -> 2398 [] n = 12 -> 2485

\* statistic.py:24   1 + 3.322 * np.log(self.N), in millionths
KMicro(n) == Million + 3322 * LnMilli(n)

RECURSIVE MinSeq(_)
MinSeq(s) == IF Len(s) = 1 THEN s[1] ELSE Min2(Head(s), MinSeq(Tail(s)))
RECURSIVE MaxSeq(_)
MaxSeq(s) == IF Len(s) = 1 THEN s[1] ELSE Max2(Head(s), MaxSeq(Tail(s)))

CeilDiv(a, b) == (a + b - 1) \div b

\* np.arange(start, stop, step) for step > 0: ceil((stop - start) / step) values
Arange(start, stop, step) ==
    [k \in 1..Max2(0, CeilDiv(stop - start, step)) |-> start + (k - 1) * step]

\* statistic.py:16-24
AnalyzerInit(values) ==
    IF values = <<>> THEN [status |-> "ValueError"]   \* np.min of an empty array
    ELSE [status |-> "ok", N |-> Len(values),
          x_min |-> MinSeq(values), x_max |-> MaxSeq(values),
          \* h as the fraction h_num / h_den
          h_num |-> (MaxSeq(values) - MinSeq(values)) * Million,
          h_den |-> KMicro(Len(values)),
          attrs |-> {"graphic_values", "model_name", "N", "x_min", "x_max", "h"}]

EdgeUnit(an) == 2 * an.h_den
\* h in edge units
HEdge(an) == 2 * an.h_num

BinStart_unshifted(an) == an.x_min * EdgeUnit(an)
\* statistic.py:30   x_start = self.x_min - self.h / 2
BinStart(an) == an.x_min * EdgeUnit(an) - HEdge(an) \div 2

BinStop_short(an) == an.x_max * EdgeUnit(an) + HEdge(an) \div 2
BinStop_long(an) == an.x_max * EdgeUnit(an) + 5 * (HEdge(an) \div 2)
\* statistic.py:31   the stop of np.arange: self.x_max + self.h * 1.5
BinStop(an) == an.x_max * EdgeUnit(an) + 3 * (HEdge(an) \div 2)

\* statistic.py:31   bins = np.arange(x_start, self.x_max + self.h * 1.5, self.h)
Bins(an) == Arange(BinStart(an), BinStop(an), HEdge(an))

\* np.histogram with explicit edges: bin j is [edges[j], edges[j+1]), the last
\* bin is closed on the right, values outside [edges[1], edges[last]] are dropped
InBin(v, edges, j) ==
    /\ edges[j] <= v
    /\ IF j = Len(edges) - 1 THEN v <= edges[j + 1] ELSE v < edges[j + 1]

\* statistic.py:32   np.histogram(self.graphic_values, bins=bins)
Histogram(values, unit, edges) ==
    [j \in 1..(Len(edges) - 1) |->
        Cardinality({i \in 1..Len(values) : InBin(values[i] * unit, edges, j)})]

\* statistic.py:33   midpoints, in edge units
Midpoints(edges) == [j \in 1..(Len(edges) - 1) |-> (edges[j] + edges[j + 1]) \div 2]

RECURSIVE SumProd(_, _)
SumProd(a, b) == IF a = <<>> THEN 0 ELSE Head(a) * Head(b) + SumProd(Tail(a), Tail(b))

\* a quantity in edge units, in thousandths of an observation unit
ToMilli(x, unit) == x \div (unit \div 1000)

\* statistic.py:36   mean of the midpoints weighted by the counts, in thousandths
MeanMilli(xi, ni, unit, n) == ToMilli(SumProd(xi, ni) \div n, unit)

\* statistic.py:37   variance, in millionths
VarMicro(xi, ni, unit, n) ==
    LET m == MeanMilli(xi, ni, unit, n)
        dev == [j \in 1..Len(xi) |-> (ToMilli(xi[j], unit) - m) * (ToMilli(xi[j], unit) - m)]
    IN  SumProd(dev, ni) \div (n - 1)

\* statistic.py:27   if self.h <= 0: return
DegenerateGuard(an) == an.h_num <= 0

CalculatedAttrs ==
    {"ni_values", "edges", "xi_values", "m", "d", "o", "m_ci", "d_ci",
     "chi2_n", "p_n", "res_n", "chi2_e", "p_e", "res_e"}

\* statistic.py:26-51.  The histogram, the mean, the variance and the standard
\* deviation are computed; of the confidence intervals and the Pearson results
\* (lines 40-51, which raise nothing) only the attributes they set are recorded.
\* The Pearson tests themselves are RunPearsonTests below.
Calculate(an, values) ==
    IF DegenerateGuard(an) THEN an
    ELSE LET edges == Bins(an)
             ni == Histogram(values, EdgeUnit(an), edges)
             xi == Midpoints(edges)
         IN  [status |-> "ok", N |-> an.N, x_min |-> an.x_min, x_max |-> an.x_max,
              h_num |-> an.h_num, h_den |-> an.h_den,
              edges |-> edges, ni_values |-> ni, xi_values |-> xi,
              m |-> MeanMilli(xi, ni, EdgeUnit(an), an.N),
              d |-> VarMicro(xi, ni, EdgeUnit(an), an.N),
              o |-> ISqrt(VarMicro(xi, ni, EdgeUnit(an), an.N)),
              attrs |-> an.attrs \cup CalculatedAttrs]

StatIdle == graphic_values = <<>> /\ analyzer = NoValue /\ pc = "idle"

InitStat ==
    /\ graphic_values \in SeqsUpTo(0..MaxVal, MaxN)
    /\ analyzer = NoValue
    /\ pc = "start"

\* main.py:86   analyzer = StatisticalAnalyzer(analysis_data, selected_scheme)
Construct ==
    /\ pc = "start"
    /\ analyzer' = AnalyzerInit(graphic_values)
    /\ pc' = IF AnalyzerInit(graphic_values).status = "ok" THEN "constructed" ELSE "crashed"
    /\ UNCHANGED graphic_values

\* main.py:87   analyzer.calculate()   (the call returns None on every path)
DoCalculate ==
    /\ pc = "constructed"
    /\ analyzer' = Calculate(analyzer, graphic_values)
    /\ pc' = "calculated"
    /\ UNCHANGED graphic_values

\* a reporting step reads attributes; a missing one raises AttributeError, which
\* ends the script run
Report(from, to, reads) ==
    /\ pc = from
    /\ IF reads \subseteq analyzer.attrs
       THEN pc' = to /\ UNCHANGED analyzer
       ELSE pc' = "crashed" /\ analyzer' = [analyzer EXCEPT !.status = "AttributeError"]
    /\ UNCHANGED graphic_values

\* main.py:191, statistic.py:84-92
TableA == Report("calculated", "tableA", {"m", "d", "x_min", "x_max", "h", "m_ci", "d_ci"})
\* main.py:194, statistic.py:94-102
TableB == Report("tableA", "tableB", {"chi2_n", "chi2_e", "p_n", "p_e", "res_n", "res_e"})
\* main.py:198, statistic.py:104-173
BarGraph == Report("tableB", "done", {"xi_values", "ni_values", "x_min", "x_max", "N", "h", "m"})

(***************************************************************************)
(* StatisticalAnalyzer._run_pearson_tests                                  *)
(* Counts are integers, the chi-square statistic and the p-values are in   *)
(* thousandths.  The expected counts N * p_i of the two fits come from     *)
(* scipy's distribution functions and are drawn here; those of the         *)
(* exponential fit are all nan when the scale 1 / lambd is not positive.   *)
(***************************************************************************)
MaxFitBins == 4
FitObsValues == {2, 8}
FitExpValues == {3, 6}

\* statistic.py:41   alpha = 0.05
Alpha == 50

\* statistic.py:71 and 80   np.sum((obs - exp)**2 / exp)
RECURSIVE ChiSquare(_, _)
ChiSquare(obs, exp) ==
    IF obs = <<>> THEN 0
    ELSE ((Head(obs) - Head(exp)) * (Head(obs) - Head(exp)) * 1000) \div Head(exp)
            + ChiSquare(Tail(obs), Tail(exp))

\* the p-values at which the chi-square distribution is tabulated
PLevels == <<900, 500, 100, 50, 10>>

\* scipy.stats.chi2: the statistic whose right-tail probability is PLevels[i],
\* for df degrees of freedom
Chi2Quantiles(df) ==
    CASE df = 1 -> <<16, 455, 2706, 3841, 6635>>
      [] df = 2 -> <<211, 1386, 4605, 5991, 9210>>
      [] df = 3 -> <<584, 2366, 6251, 7815, 11345>>
      [] df = 4 -> <<1064, 3357, 7779, 9488, 13277>>
      [] OTHER -> <<1610, 4351, 9236, 11070, 15086>>

\* statistic.py:72 and 81   1 - stats.chi2.cdf(chi2, df): nan for a nan statistic,
\* else the right-tail probability, rounded down to the nearest tabulated level
PValue(chi2, df) ==
    IF chi2 = NaN THEN NaN
    ELSE LET q == Chi2Quantiles(df)
             above == {i \in 1..Len(PLevels) : chi2 <= q[i]}
         IN  IF above = {} THEN 0
             ELSE PLevels[CHOOSE i \in above : \A j \in above : i <= j]

Decide_rejectBelow(p) == IF p # NaN /\ p < Alpha THEN "Rejected" ELSE "Accepted"
\* statistic.py:73 and 82   "Accepted" if p >= alpha else "Rejected"
Decide(p) == IF FGe(p, Alpha) THEN "Accepted" ELSE "Rejected"

\* statistic.py:70   df_n = max(1, len(exp) - 3)
DfNormal(bins) == Max2(1, bins - 3)

DfExpon_unfloored(bins) == bins - 2
\* statistic.py:79   df_e = max(1, len(exp_e) - 2)
DfExpon(bins) == Max2(1, bins - 2)

\* statistic.py:71   ... if len(exp) >= 3 else np.nan
ComputesNormal(bins) == bins >= 3

\* statistic.py:80   ... if len(exp_e) >= 2 else np.nan
ComputesExpon(bins) == bins >= 2

\* statistic.py:66-82
RunPearsonTests(ni_values, n_p_i, n_p_i_e) ==
    LET mn == MergeIntervals(ni_values, n_p_i)
        df_n == DfNormal(Len(mn.exp_m))
        chi2_n == IF ComputesNormal(Len(mn.exp_m)) THEN ChiSquare(mn.obs_m, mn.exp_m) ELSE NaN
        p_n == PValue(chi2_n, df_n)
        me == MergeIntervals(ni_values, n_p_i_e)
        df_e == DfExpon(Len(me.exp_m))
        chi2_e == IF ComputesExpon(Len(me.exp_m)) THEN ChiSquare(me.obs_m, me.exp_m) ELSE NaN
        p_e == PValue(chi2_e, df_e)
    IN  [status |-> "ok",
         exp |-> mn.exp_m, df_n |-> df_n, chi2_n |-> chi2_n, p_n |-> p_n, res_n |-> Decide(p_n),
         exp_e |-> me.exp_m, df_e |-> df_e, chi2_e |-> chi2_e, p_e |-> p_e, res_e |-> Decide(p_e)]

PearsonIdle == hist = NoValue /\ fit = NoValue

\* calculate, line 51: the histogram is built; the expected counts of a fit add
\* up to at most N, the number of observations
InitPearson ==
    /\ \E k \in 1..MaxFitBins :
          \E ni \in [1..k -> FitObsValues], en \in [1..k -> FitExpValues],
             ee \in [1..k -> FitExpValues] \cup {[i \in 1..k |-> NaN]} :
              /\ SumSeq(en) <= SumSeq(ni)
              /\ ee[1] # NaN => SumSeq(ee) <= SumSeq(ni)
              /\ hist = [ni_values |-> ni, n_p_i |-> en, n_p_i_e |-> ee]
    /\ fit = NoValue

\* statistic.py:51   self._run_pearson_tests(alpha)
DoRunPearsonTests ==
    /\ fit = NoValue
    /\ fit' = RunPearsonTests(hist.ni_values, hist.n_p_i, hist.n_p_i_e)
    /\ UNCHANGED hist

(***************************************************************************)
(* LayersManager.make_one_layer                                            *)
(* Refractive indices are in hundredths, mua in thousandths, mus and g in  *)
(* tenths, thicknesses in tenths of a cm; a mean is in thousandths of the  *)
(* unit of what it averages.                                               *)
(***************************************************************************)
LayerNValues == {133, 137, 143}
LayerMuaValues == {4, 18}
LayerDValues == {2, 5}

\* np.mean
Mean(s) == (SumSeq(s) * 1000) \div Len(s)

\* Python's s[a:b] for 0 <= a <= b
Slice(s, a, b) == SubSeq(s, a + 1, Min2(b, Len(s)))

\* layers_manager.py:26-41
MakeOneLayer(d) ==
    [nl |-> 1,
     n |-> <<d.n[1] * 1000, Mean(Slice(d.n, 1, 4)), d.n[6] * 1000>>,
     mua |-> <<Mean(d.mua)>>, mus |-> <<Mean(d.mus)>>, g |-> <<Mean(d.g)>>,
     d |-> <<SumSeq(d.d)>>]

LayersIdle == lm_data = NoValue /\ scheme_data = NoValue

\* main.py:68   LayersManager(DEFAULT_INPUT_DATA): four tissue layers between
\* two ambient media
InitLayers ==
    /\ \E n \in [2..5 -> LayerNValues], mua \in [1..4 -> LayerMuaValues],
          d \in [1..4 -> LayerDValues] :
          lm_data = [nl |-> 4,
                     n |-> <<100, n[2], n[3], n[4], n[5], 100>>,
                     mua |-> mua, mus |-> <<190, 160, 24, 220>>,
                     g |-> <<9, 9, 9, 9>>, d |-> d]
    /\ scheme_data = NoValue

\* main.py:73   input_data = layer_mgr.make_one_layer()
DoMakeOneLayer ==
    /\ scheme_data = NoValue
    /\ scheme_data' = MakeOneLayer(lm_data)
    /\ UNCHANGED lm_data

(***************************************************************************)
(* SimulationMonteCarlo.mc / process_output                                *)
(* Real quantities are in thousandths; dr and dz are in tenths of a cm;    *)
(* angles are in units of pi/24 (da = 12 / na).  The three numpy arrays mc *)
(* creates are the objects "rd_ra", "ab_rz", "tt_ra" of the heap `arrays`; *)
(* `handed` keeps what they held when mc handed them to process_output.    *)
(***************************************************************************)
MaxCount == 1
MaxNp == 2
NrValues == {1, 2}
NaValues == {1, 2, 3}
NzValues == {1, 2}
DrValues == {0, 1, 2}
DzValues == {0, 2}

\* np.sin of m * pi/24, in thousandths
Sin24(m) ==
    LET t == <<0, 131, 259, 383, 500, 609, 707, 793, 866, 924, 966, 991, 1000>>
    IN  IF m <= 12 THEN t[m + 1] ELSE t[24 - m + 1]

\* monte_carlo_simulation.py:60   da = 0.5 * np.pi / na
Da24(na) == 12 \div na
\* np.sin(da / 2)
SinHalfDa(na) == Sin24(6 \div na)

\* x * y of two floats
FMul(x, y) ==
    IF x = NaN \/ y = NaN THEN NaN
    ELSE IF x = PosInf \/ y = PosInf THEN (IF x = 0 \/ y = 0 THEN NaN ELSE PosInf)
    ELSE (x * y) \div 1000

\* 1.0 / a for an element a of a numpy array: inf where a is 0.0 (a warning, no exception)
Recip(den) == IF den = 0 THEN PosInf ELSE Million \div den

NormalizeByPhotons_skipped(count, np) == count * 1000
\* monte_carlo_simulation.py:74-76   array /= input_data.np, one element
NormalizeByPhotons(count, np) == (count * 1000) \div np

Rows(a) == Len(a)
Cols(a) == IF a = <<>> THEN 0 ELSE Len(a[1])
\* lines 74-76: array /= np
DivideByPhotons(a, np) ==
    [i \in 1..Rows(a) |-> [j \in 1..Cols(a) |-> NormalizeByPhotons(a[i][j], np)]]

\* np.sum(a, axis=1), np.sum(a, axis=0), np.sum(a) of finite arrays
SumAxis1(a) == [i \in 1..Rows(a) |-> SumSeq(a[i])]
SumAxis0(a) == [j \in 1..Cols(a) |-> SumSeq([i \in 1..Rows(a) |-> a[i][j]])]
SumAll(a) == SumSeq(SumAxis1(a))

\* monte_carlo_simulation.py:94   scale1 = 4.0 * np.pi**2 * dr * np.sin(da / 2) * dr
Scale1(inp) == (((((39478 * inp.dr) \div 10) * SinHalfDa(inp.na)) \div 1000) * inp.dr) \div 10
\* monte_carlo_simulation.py:99   scale2_ra[ir, ia]
Scale2Ra(inp, ir, ia) ==
    Recip(((((2 * ir - 1) * Sin24((2 * ia - 1) * Da24(inp.na))) \div 2) * Scale1(inp)) \div 1000)
\* monte_carlo_simulation.py:104  scale1_r = 2.0 * np.pi * dr**2
Scale1R(inp) == (6283 * inp.dr * inp.dr) \div 100
\* monte_carlo_simulation.py:106-107   1.0 / ((r_indices - 0.5) * scale1_r)
ScaleR(inp, ir) == Recip(((2 * ir - 1) * Scale1R(inp)) \div 2)
\* monte_carlo_simulation.py:110  scale1_a = 4.0 * np.pi * np.sin(da / 2)
Scale1A(inp) == (12566 * SinHalfDa(inp.na)) \div 1000
\* monte_carlo_simulation.py:112-113   1.0 / (np.sin(a_indices * da) * scale1_a)
ScaleA(inp, ia) == Recip((Sin24(ia * Da24(inp.na)) * Scale1A(inp)) \div 1000)
\* monte_carlo_simulation.py:116  1.0 / (r_indices * scale1_a * dz)
ScaleRz(inp, ir) == Recip((ir * Scale1A(inp) * inp.dz) \div 10)

TotalOf_afterScaling(normalized, scaled) == SumAll(scaled)
\* monte_carlo_simulation.py:86-88   the totals are summed after the division by
\* np (lines 74-76) and before the geometric rescaling (lines 100-116)
TotalOf(normalized, scaled) == SumAll(normalized)

StoreScaled_copy(arrs, id, new) == arrs
\* the in-place operators /= and *= of monte_carlo_simulation.py:74-76, 100-101, 116:
\* the array object `id` of the heap takes the new contents
StoreScaled(arrs, id, new) == [arrs EXCEPT ![id] = new]

\* monte_carlo_simulation.py:71-119
ProcessOutput(inp, arrs) ==
    LET rd1 == DivideByPhotons(arrs.rd_ra, inp.np)
        ab1 == DivideByPhotons(arrs.ab_rz, inp.np)
        tt1 == DivideByPhotons(arrs.tt_ra, inp.np)
        rd2 == [i \in 1..Rows(rd1) |-> [j \in 1..Cols(rd1) |->
                    FMul(rd1[i][j], Scale2Ra(inp, i, j))]]
        tt2 == [i \in 1..Rows(tt1) |-> [j \in 1..Cols(tt1) |->
                    FMul(tt1[i][j], Scale2Ra(inp, i, j))]]
        ab2 == [i \in 1..Rows(ab1) |-> [j \in 1..Cols(ab1) |->
                    FMul(ab1[i][j], ScaleRz(inp, i))]]
        heap == StoreScaled(StoreScaled(StoreScaled(arrs, "rd_ra", rd2), "tt_ra", tt2),
                            "ab_rz", ab2)
        rd_r == SumAxis1(rd1)
        rd_a == SumAxis0(rd1)
        ab_z == SumAxis0(ab1)
        tt_r == SumAxis1(tt1)
        tt_a == SumAxis0(tt1)
    IN  IF inp.dz = 0
        \* line 117: 1.0 / dz of two Python floats raises; lines 74-116 have run
        THEN [arrays |-> heap, output |-> [status |-> "ZeroDivisionError"]]
        ELSE [arrays |-> heap,
              output |->
                [status |-> "ok",
                 \* the 2-D fields are the array objects that were passed in
                 rd_ra |-> "rd_ra", ab_rz |-> "ab_rz", tt_ra |-> "tt_ra",
                 rd_r |-> [i \in 1..Len(rd_r) |-> FMul(rd_r[i], ScaleR(inp, i))],
                 tt_r |-> [i \in 1..Len(tt_r) |-> FMul(tt_r[i], ScaleR(inp, i))],
                 rd_a |-> [j \in 1..Len(rd_a) |-> FMul(rd_a[j], ScaleA(inp, j))],
                 tt_a |-> [j \in 1..Len(tt_a) |-> FMul(tt_a[j], ScaleA(inp, j))],
                 ab_r |-> SumAxis1(ab1),
                 ab_z |-> [j \in 1..Len(ab_z) |-> FMul(ab_z[j], Recip(inp.dz * 100))],
                 rd |-> TotalOf(rd1, rd2), ab |-> TotalOf(ab1, ab2),
                 tt |-> TotalOf(tt1, tt2)]]

Filled(nr, nc, c) == [i \in 1..nr |-> [j \in 1..nc |-> c]]

NormIdle ==
    input_data = NoValue /\ handed = NoValue /\ arrays = NoValue /\ output = NoValue

\* mc, lines 123-126: the three raw arrays exist and are about to be passed on
InitNorm ==
    /\ \E np \in 1..MaxNp, dr \in DrValues, dz \in DzValues,
          nr \in NrValues, na \in NaValues, nz \in NzValues :
          /\ input_data = [np |-> np, dr |-> dr, dz |-> dz, nr |-> nr, na |-> na, nz |-> nz]
          /\ \E rd \in [1..nr -> [1..na -> 0..MaxCount]], ab \in 0..MaxCount, tt \in 0..MaxCount :
                arrays = [rd_ra |-> rd, ab_rz |-> Filled(nr, nz, ab), tt_ra |-> Filled(nr, na, tt)]
    /\ handed = arrays
    /\ output = NoValue

\* mc, line 128: return self.process_output(input_data, output)
DoProcessOutput ==
    /\ output = NoValue
    /\ arrays' = ProcessOutput(input_data, arrays).arrays
    /\ output' = ProcessOutput(input_data, arrays).output
    /\ UNCHANGED <<input_data, handed>>

(***************************************************************************)
(* SimulationMonteCarlo.get_analysis_data                                  *)
(* Distances are in ticks of 0.05 cm (dr is an even number of ticks);      *)
(* reflectance values are in units of 10^-13, so that a row of the file,   *)
(* written with 12 decimals, is a multiple of ten units.                   *)
(***************************************************************************)
MaxRuns == 2
ProfileValues == {0, 44, 107}
ProfileNr == {2, 3}
ProfileDr == {4}
StartValues == {0, 3}
EndValues == {7, 12}
StepValues == {2, 3}

Sign(x) == IF x > 0 THEN 1 ELSE IF x < 0 THEN 0 - 1 ELSE 0
Abs(x) == IF x < 0 THEN 0 - x ELSE x

\* scipy PchipInterpolator._find_derivatives on an evenly spaced grid of step h.
\* s[k] = y[k+1] - y[k] is the slope m[k] times h; the result is the derivative
\* times h at each point.
PchipEdge(h0, h1, s0, s1) ==
    LET d == ((2 * h0 + h1) * s0 - h0 * s1) \div (h0 + h1)
    IN  IF Sign(d) # Sign(s0) THEN 0
        ELSE IF Sign(s0) # Sign(s1) /\ Abs(d) > 3 * Abs(s0) THEN 3 * s0
        ELSE d

PchipInner(h0, h1, s0, s1) ==
    LET w1 == 2 * h1 + h0
        w2 == h1 + 2 * h0
    IN  IF Sign(s0) # Sign(s1) \/ s0 = 0 \/ s1 = 0 THEN 0
        ELSE ((w1 + w2) * s0 * s1) \div (w1 * s1 + w2 * s0)

PchipDerivatives(y, h) ==
    LET n == Len(y)
        s == [k \in 1..(n - 1) |-> y[k + 1] - y[k]]
    IN  IF n = 2 THEN <<s[1], s[1]>>
        ELSE [k \in 1..n |->
                 IF k = 1 THEN PchipEdge(h, h, s[1], s[2])
                 ELSE IF k = n THEN PchipEdge(h, h, s[n - 1], s[n - 2])
                 ELSE PchipInner(h, h, s[k - 1], s[k])]

\* scipy PPoly.__call__: the cubic Hermite polynomial of the interval that
\* holds q (the first interval for a q below the grid)
PchipCubic(x, y, q) ==
    LET n == Len(x)
        h == x[2] - x[1]
        d == PchipDerivatives(y, h)
        k == IF q < x[1] THEN 1
             ELSE CHOOSE i \in 1..(n - 1) : x[i] <= q /\ (i = n - 1 \/ q < x[i + 1])
        t == q - x[k]
        s == y[k + 1] - y[k]
    IN  (y[k] * h * h * h + d[k] * t * h * h
            + (3 * s - 2 * d[k] - d[k + 1]) * t * t * h
            + (d[k] + d[k + 1] - 2 * s) * t * t * t) \div (h * h * h)

PchipEval_extrapolating(x, y, q) == PchipCubic(x, y, q)

\* monte_carlo_simulation.py:137-138   PchipInterpolator(rindex, rd_r,
\* extrapolate=False) at one query point: the cubic of the interval that holds q,
\* nan outside [x[1], x[n]]
PchipEval(x, y, q) ==
    IF q < x[1] \/ q > x[Len(x)] THEN NaN ELSE PchipCubic(x, y, q)

\* monte_carlo_simulation.py:138   np.nan_to_num(..., nan=0.0), one element
NanToNum(v) == IF v = NaN THEN 0 ELSE v

\* monte_carlo_simulation.py:133   rindex
RIndex(nr, dr) == [i \in 1..nr |-> i * dr - dr \div 2]

\* np.sort: insertion of v into an ascending sequence
RECURSIVE InsertSorted(_, _)
InsertSorted(s, v) ==
    IF s = <<>> THEN <<v>>
    ELSE IF v <= Head(s) THEN <<v>> \o s
    ELSE <<Head(s)>> \o InsertSorted(Tail(s), v)
RECURSIVE NpSort(_)
\* monte_carlo_simulation.py:145   np.sort(p_reflectance)
NpSort(s) == IF s = <<>> THEN <<>> ELSE InsertSorted(NpSort(Tail(s)), Head(s))

\* monte_carlo_simulation.py:148   float_format='%.12f': a value in units of
\* 10^-13 becomes a row in units of 10^-12, rounded to the nearest
Format12(v) == (v + 5) \div 10

NoFile == [status |-> "absent"]

WriteCsv_append(old, rows) ==
    IF old = NoFile THEN [status |-> "written", header |-> "P_reflectance", rows |-> rows]
    ELSE [old EXCEPT !.rows = @ \o rows]
\* monte_carlo_simulation.py:146-148   to_csv(file_name, ...) opens the file in
\* pandas' default mode "w": the file is created or truncated
WriteCsv(old, rows) == [status |-> "written", header |-> "P_reflectance", rows |-> rows]

\* monte_carlo_simulation.py:131-150
GetAnalysisData(m, start_dist, end_dist, step) ==
    LET rindex == RIndex(m.nr, m.dr)
        i_distances == Arange(start_dist, end_dist + step, step)
        p_reflectance == [k \in 1..Len(i_distances) |->
                             NanToNum(PchipEval(rindex, m.rd_r, i_distances[k]))]
        p_sorted == NpSort(p_reflectance)
    IN  [df_p_only |-> [i_value |-> i_distances, P_reflectance |-> p_reflectance],
         rows |-> [k \in 1..Len(p_sorted) |-> Format12(p_sorted[k])],
         rindex |-> rindex, rd_r |-> m.rd_r]

FileIdle ==
    /\ mcs = NoValue /\ file = NoFile /\ df_p_only = NoValue
    /\ written = [runs |-> 0, before |-> 0] /\ fpc = "idle"

InitFile ==
    /\ mcs = NoValue /\ file = NoFile /\ df_p_only = NoValue
    /\ written = [runs |-> 0, before |-> 0] /\ fpc = "start"

\* main.py:82-83   a script run builds the simulation object and runs the
\* simulation, which leaves a fresh radial profile in self.output.rd_r
RunSimulation ==
    /\ fpc = "start"
    /\ written.runs < MaxRuns
    /\ \E nr \in ProfileNr, dr \in ProfileDr :
          \E rd_r \in [1..nr -> ProfileValues] :
              mcs' = [nr |-> nr, dr |-> dr, rd_r |-> rd_r]
    /\ fpc' = "simulated"
    /\ UNCHANGED <<file, df_p_only, written>>

\* main.py:84   mcs.get_analysis_data(start, end, step)
DoGetAnalysisData ==
    /\ fpc = "simulated"
    /\ \E start_dist \in StartValues, end_dist \in EndValues, step \in StepValues :
          \E r \in {GetAnalysisData(mcs, start_dist, end_dist, step)} :
              /\ file' = WriteCsv(file, r.rows)
              /\ df_p_only' = r.df_p_only
              /\ written' = [runs |-> written.runs + 1,
                             before |-> IF file = NoFile THEN 0 ELSE Len(file.rows)]
    /\ fpc' = "start"
    /\ UNCHANGED mcs

(***************************************************************************)
(* Specifications                                                          *)
(***************************************************************************)
mergeVars == <<ni_obs, ni_exp, merged>>
stackVars == <<data, input>>
statVars == <<graphic_values, analyzer, pc>>
normVars == <<input_data, handed, arrays, output>>
fileVars == <<mcs, file, df_p_only, written, fpc>>
pearsonVars == <<hist, fit>>
layerVars == <<lm_data, scheme_data>>

InitSpecMerge == InitMerge /\ StackIdle /\ StatIdle /\ NormIdle /\ FileIdle /\ PearsonIdle /\ LayersIdle
NextMerge == DoMergeIntervals /\ UNCHANGED <<stackVars, statVars, normVars, fileVars, pearsonVars, layerVars>>
SpecMerge == InitSpecMerge /\ [][NextMerge]_vars

InitSpecStack == InitStack /\ MergeIdle /\ StatIdle /\ NormIdle /\ FileIdle /\ PearsonIdle /\ LayersIdle
NextStack == DoInitializeInput /\ UNCHANGED <<mergeVars, statVars, normVars, fileVars, pearsonVars, layerVars>>
SpecStack == InitSpecStack /\ [][NextStack]_vars

InitSpecStat == InitStat /\ MergeIdle /\ StackIdle /\ NormIdle /\ FileIdle /\ PearsonIdle /\ LayersIdle
StatStep(A) == A /\ UNCHANGED <<mergeVars, stackVars, normVars, fileVars, pearsonVars, layerVars>>
NextStat ==
    \/ StatStep(Construct)
    \/ StatStep(DoCalculate)
    \/ StatStep(TableA)
    \/ StatStep(TableB)
    \/ StatStep(BarGraph)
SpecStat == InitSpecStat /\ [][NextStat]_vars

InitSpecNorm == InitNorm /\ MergeIdle /\ StackIdle /\ StatIdle /\ FileIdle /\ PearsonIdle /\ LayersIdle
NextNorm == DoProcessOutput /\ UNCHANGED <<mergeVars, stackVars, statVars, fileVars, pearsonVars, layerVars>>
SpecNorm == InitSpecNorm /\ [][NextNorm]_vars

InitSpecFile == InitFile /\ MergeIdle /\ StackIdle /\ StatIdle /\ NormIdle /\ PearsonIdle /\ LayersIdle
FileStep(A) == A /\ UNCHANGED <<mergeVars, stackVars, statVars, normVars, pearsonVars, layerVars>>
NextFile ==
    \/ FileStep(RunSimulation)
    \/ FileStep(DoGetAnalysisData)
SpecFile == InitSpecFile /\ [][NextFile]_vars

InitSpecPearson ==
    InitPearson /\ MergeIdle /\ StackIdle /\ StatIdle /\ NormIdle /\ FileIdle /\ LayersIdle
NextPearson ==
    DoRunPearsonTests
        /\ UNCHANGED <<mergeVars, stackVars, statVars, normVars, fileVars, layerVars>>
SpecPearson == InitSpecPearson /\ [][NextPearson]_vars

InitSpecLayers ==
    InitLayers /\ MergeIdle /\ StackIdle /\ StatIdle /\ NormIdle /\ FileIdle /\ PearsonIdle
NextLayers ==
    DoMakeOneLayer
        /\ UNCHANGED <<mergeVars, stackVars, statVars, normVars, fileVars, pearsonVars>>
SpecLayers == InitSpecLayers /\ [][NextLayers]_vars

(***************************************************************************)
(* C3: once _merge_intervals has run, every merged bin of the returned     *)
(* expected-count sequence holds an expected count of at least 5, and the  *)
(* merged bins are consecutive runs of the input bins: the running total   *)
(* of the merged expected counts up to any bin but the last is the total   *)
(* of a prefix of the input, and the last bin takes all that remains.      *)
(***************************************************************************)
IsPrefixTotal(s, total) == \E k \in 0..Len(s) : SumSeq(Prefix(s, k)) = total

C3_MergedBinsAtLeastFive ==
    merged # NoValue =>
        /\ \A j \in 1..Len(merged.exp_m) : merged.exp_m[j] >= MergeThreshold
        /\ \A j \in 1..(Len(merged.exp_m) - 1) :
              IsPrefixTotal(ni_exp, SumSeq(Prefix(merged.exp_m, j)))
        /\ merged.exp_m # <<>> => SumSeq(merged.exp_m) = SumSeq(ni_exp)

\* two bins were merged and the last one absorbed a trailing partial group
C3_Witness ==
    /\ merged # NoValue
    /\ Len(merged.exp_m) = 2
    /\ Len(ni_exp) = 4
    /\ ni_exp[4] = 3
    /\ merged.exp_m[2] = 9

(***************************************************************************)
(* C4: building the layer stack fails, producing no layer record,          *)
(* whenever len(n) # len(d) + 2 or a thickness is <= 0.  (The claim names  *)
(* the failure InvalidStackError; any raised error is taken for it here.)  *)
(***************************************************************************)
InvalidStack(dt) ==
    \/ Len(dt.n) # Len(dt.d) + 2
    \/ \E i \in 1..Len(dt.d) : dt.d[i] <= 0

C4_InvalidStackRejected ==
    (input # NoValue /\ InvalidStack(data)) =>
        (input.status # "ok" /\ input.layers = <<>>)

(***************************************************************************)
(* The histogram of a completed, non-degenerate calculate                  *)
(***************************************************************************)
Degenerate(values) == Len(values) <= 1 \/ \A i \in 1..Len(values) : values[i] = values[1]

Analysed ==
    /\ pc \in {"calculated", "tableA", "tableB", "done"}
    /\ "ni_values" \in analyzer.attrs

(***************************************************************************)
(* C2: for observations whose bin width is <= 0 (N <= 1 or all values      *)
(* identical) no step of the script crashes, no statistics are produced,   *)
(* and once calculate has returned the caller holds an explicit            *)
(* not-computable result (DegenerateSampleError).                          *)
(***************************************************************************)
C2_DegenerateNotComputable ==
    Degenerate(graphic_values) =>
        /\ pc # "crashed"
        /\ pc \in {"calculated", "tableA", "tableB", "done"} =>
              /\ analyzer.status = "DegenerateSampleError"
              /\ analyzer.attrs \cap CalculatedAttrs = {}

(***************************************************************************)
(* C7 as amended: for a non-degenerate sequence the bin edges start at     *)
(* min - h/2 and advance by exactly h, and the last edge is the last such  *)
(* value strictly below max + 1.5 h: it is at least max + h/2, and need    *)
(* not reach max + h.                                                      *)
(***************************************************************************)
EdgesStartAndStep ==
    LET e == analyzer.edges
    IN  /\ Len(e) >= 2
        /\ 2 * e[1] = 2 * analyzer.x_min * EdgeUnit(analyzer) - HEdge(analyzer)
        /\ \A k \in 1..(Len(e) - 1) : e[k + 1] - e[k] = HEdge(analyzer)

C7_EdgesBelowMaxPlusThreeHalves ==
    Analysed =>
        /\ EdgesStartAndStep
        /\ 2 * analyzer.edges[Len(analyzer.edges)]
              >= 2 * analyzer.x_max * EdgeUnit(analyzer) + HEdge(analyzer)
        /\ 2 * analyzer.edges[Len(analyzer.edges)]
              < 2 * analyzer.x_max * EdgeUnit(analyzer) + 3 * HEdge(analyzer)

\* C7 as stated: the last edge is >= max + h
C7_LastEdgeReachesMaxPlusH ==
    Analysed =>
        /\ EdgesStartAndStep
        /\ analyzer.edges[Len(analyzer.edges)]
              >= analyzer.x_max * EdgeUnit(analyzer) + HEdge(analyzer)

\* a histogram of three observations whose last edge lies below max + h
C7_Witness ==
    /\ Analysed
    /\ analyzer.N = 3
    /\ analyzer.edges[Len(analyzer.edges)]
          < analyzer.x_max * EdgeUnit(analyzer) + HEdge(analyzer)

(***************************************************************************)
(* C8 as amended: for a non-degenerate sequence the maximum lies strictly  *)
(* below the last edge and inside one of the last two bins, and the bin    *)
(* that holds it has a count of at least 1; the last bin itself may be     *)
(* empty.                                                                  *)
(***************************************************************************)
C8_MaxInOneOfLastTwoBins ==
    Analysed =>
        LET e == analyzer.edges
            n == Len(e)
            mx == analyzer.x_max * EdgeUnit(analyzer)
        IN  /\ n >= 3
            /\ mx < e[n]
            /\ e[n - 2] <= mx
            /\ \E j \in {n - 2, n - 1} : InBin(mx, e, j) /\ analyzer.ni_values[j] >= 1

\* C8 as stated: the maximum lies between the last two edges and the last
\* bin's count is at least 1
C8_MaxInLastBin ==
    Analysed =>
        LET e == analyzer.edges
            n == Len(e)
            mx == analyzer.x_max * EdgeUnit(analyzer)
        IN  /\ e[n - 1] <= mx
            /\ mx <= e[n]
            /\ analyzer.ni_values[n - 1] >= 1

\* the maximum was counted in the bin before the last, the last bin is empty
C8_Witness ==
    /\ Analysed
    /\ analyzer.ni_values[Len(analyzer.ni_values)] = 0
    /\ analyzer.ni_values[Len(analyzer.ni_values) - 1] >= 1
    /\ analyzer.x_max * EdgeUnit(analyzer) < analyzer.edges[Len(analyzer.edges) - 1]

(***************************************************************************)
(* C9: for a non-degenerate sequence of length N the histogram has one     *)
(* count per pair of consecutive edges, the counts add up to N, and every  *)
(* observation, the minimum and the maximum included, lies in exactly one  *)
(* bin.                                                                    *)
(***************************************************************************)
C9_HistogramCountsEveryObservation ==
    Analysed =>
        /\ Len(analyzer.ni_values) = Len(analyzer.edges) - 1
        /\ SumSeq(analyzer.ni_values) = Len(graphic_values)
        /\ analyzer.N = Len(graphic_values)
        /\ \A i \in 1..Len(graphic_values) :
              Cardinality({j \in 1..(Len(analyzer.edges) - 1) :
                  InBin(graphic_values[i] * EdgeUnit(analyzer), analyzer.edges, j)}) = 1

\* four observations with distinct minimum and maximum, both counted
C9_Witness ==
    /\ Analysed
    /\ analyzer.N = 4
    /\ analyzer.ni_values[1] >= 1
    /\ SumSeq(analyzer.ni_values) = 4
    /\ \E j \in 2..Len(analyzer.ni_values) :
          /\ analyzer.ni_values[j] >= 1
          /\ InBin(analyzer.x_max * EdgeUnit(analyzer), analyzer.edges, j)

(***************************************************************************)
(* The normalizer's claims                                                 *)
(***************************************************************************)
Called == output # NoValue

ValidGrid(inp) ==
    inp.np >= 1 /\ inp.dr > 0 /\ inp.dz > 0 /\ inp.nr >= 1 /\ inp.na >= 1 /\ inp.nz >= 1

IsFinite(x) == x # PosInf /\ x # NaN

AllFinite(a) == \A i \in 1..Rows(a) : \A j \in 1..Cols(a) : IsFinite(a[i][j])

\* the count c divided by the photon count
PerPhoton(c) == (c * 1000) \div input_data.np

ZeroDenominator(inp) ==
    \/ inp.dz = 0
    \/ \E i \in 1..inp.nr : ScaleR(inp, i) = PosInf \/ ScaleRz(inp, i) = PosInf
    \/ \E j \in 1..inp.na : ScaleA(inp, j) = PosInf
    \/ \E i \in 1..inp.nr, j \in 1..inp.na : Scale2Ra(inp, i, j) = PosInf

C5_DegenerateGridRejected ==
    Called =>
        /\ ZeroDenominator(input_data) => output.status # "ok"
        /\ output.status = "ok" =>
              /\ AllFinite(arrays.rd_ra)
              /\ AllFinite(arrays.tt_ra)
              /\ AllFinite(arrays.ab_rz)
              /\ \A i \in 1..Len(output.rd_r) : IsFinite(output.rd_r[i])

(***************************************************************************)
(* C6 as amended: on a valid grid the scalar total rd equals the sum of    *)
(* the reflectance field as it stood after the division by photonCount and *)
(* before the geometric rescaling; the rd_ra field of the returned output  *)
(* has been rescaled since, and its sum need not equal rd.                 *)
(***************************************************************************)
C6_TotalIsSumBeforeScaling ==
    (output.status = "ok" /\ ValidGrid(input_data)) =>
        output.rd = SumAll([i \in 1..input_data.nr |-> [j \in 1..input_data.na |->
                                PerPhoton(handed.rd_ra[i][j])]])

\* C6 as stated: the sum of the returned rd_ra field equals rd
C6_ReturnedFieldSumsToTotal ==
    (output.status = "ok" /\ ValidGrid(input_data)) =>
        SumAll(arrays[output.rd_ra]) = output.rd

\* a completed call on a valid grid with reflectance present whose returned
\* field does not add up to rd
C6_Witness ==
    /\ output.status = "ok"
    /\ ValidGrid(input_data)
    /\ output.rd > 0
    /\ SumAll(arrays[output.rd_ra]) # output.rd

(***************************************************************************)
(* C10: after any sequence of runs P_reflectance.txt holds exactly the     *)
(* values sampled by the most recent get_analysis_data, written with 12    *)
(* decimals: one row per query distance, in ascending order, the rows      *)
(* being the sampled values rearranged, and nothing of an earlier run.     *)
(***************************************************************************)
Ascending(s) == \A k \in 1..(Len(s) - 1) : s[k] <= s[k + 1]

Occurrences(s, v) == Cardinality({k \in 1..Len(s) : s[k] = v})

C10_FileHoldsLatestSample ==
    written.runs >= 1 =>
        /\ file.status = "written"
        /\ Len(file.rows) = Len(df_p_only.i_value)
        /\ Ascending(file.rows)
        /\ \A k \in 1..Len(df_p_only.P_reflectance) :
              Occurrences(file.rows, Format12(df_p_only.P_reflectance[k]))
                = Occurrences([i \in 1..Len(df_p_only.P_reflectance) |->
                                  Format12(df_p_only.P_reflectance[i])],
                              Format12(df_p_only.P_reflectance[k]))

\* a second run that sampled fewer distances than the first and left only its
\* own rows, some of them positive, in the file
C10_Witness ==
    /\ written.runs = 2
    /\ file.status = "written"
    /\ Len(file.rows) < written.before
    /\ file.rows[Len(file.rows)] > 0
    /\ file.rows[1] < file.rows[Len(file.rows)]

(***************************************************************************)
(* C11: once get_analysis_data has returned, every query distance strictly *)
(* below the smallest bin midpoint or strictly above the largest one has   *)
(* the sampled value 0, the call has returned one value per query          *)
(* distance and raised nothing: no value is extrapolated beyond the grid.  *)
(* (The profile has at least two bins, as the interpolator requires.)      *)
(***************************************************************************)
Sampled == fpc = "start" /\ written.runs >= 1

OutOfDomain(q) ==
    LET x == RIndex(mcs.nr, mcs.dr)
    IN  q < x[1] \/ q > x[Len(x)]

C11_OutOfDomainYieldsZero ==
    Sampled =>
        /\ Len(df_p_only.P_reflectance) = Len(df_p_only.i_value)
        /\ \A k \in 1..Len(df_p_only.i_value) :
              OutOfDomain(df_p_only.i_value[k]) => df_p_only.P_reflectance[k] = 0

\* a sample with a query below the grid and one above it, both 0, where the
\* cubic pieces continued beyond the grid would have given other values, and
\* with a nonzero value sampled inside the grid
C11_Witness ==
    /\ Sampled
    /\ \E k \in 1..Len(df_p_only.i_value) :
          /\ df_p_only.i_value[k] < RIndex(mcs.nr, mcs.dr)[1]
          /\ df_p_only.P_reflectance[k] = 0
          /\ PchipCubic(RIndex(mcs.nr, mcs.dr), mcs.rd_r, df_p_only.i_value[k]) # 0
    /\ \E k \in 1..Len(df_p_only.i_value) :
          /\ df_p_only.i_value[k] > RIndex(mcs.nr, mcs.dr)[mcs.nr]
          /\ df_p_only.P_reflectance[k] = 0
          /\ PchipCubic(RIndex(mcs.nr, mcs.dr), mcs.rd_r, df_p_only.i_value[k]) # 0
    /\ \E k \in 1..Len(df_p_only.i_value) :
          /\ ~OutOfDomain(df_p_only.i_value[k])
          /\ df_p_only.P_reflectance[k] # 0

(***************************************************************************)
(* C12: once the Pearson tests have run, they have completed, and each of  *)
(* the Normal and the Exponential fit reports a decision that is Accepted  *)
(* or Rejected, Accepted exactly when its p-value is a number >= alpha;    *)
(* a fit whose statistic is not-a-number has a not-a-number p-value and    *)
(* still reports a decision.                                               *)
(***************************************************************************)
Tested == fit # NoValue

DecisionFollows(res, p, chi2) ==
    /\ res \in {"Accepted", "Rejected"}
    /\ res = "Accepted" <=> (p # NaN /\ p >= Alpha)
    /\ chi2 = NaN => p = NaN

C12_DecisionFollowsPValue ==
    Tested =>
        /\ fit.status = "ok"
        /\ DecisionFollows(fit.res_n, fit.p_n, fit.chi2_n)
        /\ DecisionFollows(fit.res_e, fit.p_e, fit.chi2_e)

\* the Normal fit has an undefined statistic and is Rejected, the Exponential
\* fit has a computed one and is Accepted
C12_Witness ==
    /\ Tested
    /\ fit.chi2_n = NaN /\ fit.res_n = "Rejected"
    /\ fit.chi2_e # NaN /\ fit.p_e >= Alpha /\ fit.res_e = "Accepted"

(***************************************************************************)
(* C13: the chi-square statistic of a fit is not-a-number whenever fewer   *)
(* merged bins remain than a valid test requires, and whenever it is       *)
(* computed the merged bins suffice.  A test with k merged bins and p      *)
(* fitted parameters is valid when its degrees of freedom k - 1 - p are at *)
(* least 1: 4 bins for the Normal fit, 3 for the Exponential fit.          *)
(***************************************************************************)
BinsForValidTest(params) == params + 2

FlooredDf(bins, params) == IF bins - 1 - params < 1 THEN 1 ELSE bins - 1 - params

C15_DegreesOfFreedomFlooredAtOne ==
    Tested =>
        /\ fit.df_n = FlooredDf(Len(fit.exp), 2)
        /\ fit.df_e = FlooredDf(Len(fit.exp_e), 1)

\* no merged bin is left for the Exponential fit, whose degrees of freedom
\* are floored, and four for the Normal fit
C15_Witness ==
    /\ Tested
    /\ Len(fit.exp_e) = 0 /\ fit.df_e = 1
    /\ Len(fit.exp) = 4 /\ fit.df_n = 1

(***************************************************************************)
(* C17 as amended: if _merge_intervals returns at least one merged bin,    *)
(* the merged expected counts add up to the input expected counts, and the *)
(* merged observed counts add up to the input observed counts less the     *)
(* observations of the bins left over after the last completed merged bin  *)
(* when those have an expected total of 0: such bins are not folded into   *)
(* the last merged bin.  If the running expected total never reaches 5,    *)
(* both returned sequences are empty.                                      *)
(***************************************************************************)
Leftover == MergeLoop(ni_obs, ni_exp, 1, <<>>, <<>>, 0, 0)

C17_MergeConservesFoldedCounts ==
    merged # NoValue =>
        /\ merged.exp_m # <<>> =>
              /\ SumSeq(merged.exp_m) = SumSeq(ni_exp)
              /\ SumSeq(merged.obs_m) =
                    SumSeq(ni_obs) - (IF Leftover.c_exp = 0 THEN Leftover.c_obs ELSE 0)
        /\ SumSeq(ni_exp) < MergeThreshold => (merged.exp_m = <<>> /\ merged.obs_m = <<>>)
        /\ Len(merged.obs_m) = Len(merged.exp_m)

\* C17 as stated: with at least one merged bin both sums are conserved
C17_MergeConservesCounts ==
    merged # NoValue =>
        /\ merged.exp_m # <<>> =>
              /\ SumSeq(merged.exp_m) = SumSeq(ni_exp)
              /\ SumSeq(merged.obs_m) = SumSeq(ni_obs)
        /\ SumSeq(ni_exp) < MergeThreshold => (merged.exp_m = <<>> /\ merged.obs_m = <<>>)

\* a last bin with expected count 0 and an observation follows a completed
\* merged bin, and its observation is in no merged bin
C17_Witness ==
    /\ merged # NoValue
    /\ merged.exp_m # <<>>
    /\ Len(ni_exp) >= 2
    /\ ni_exp[Len(ni_exp)] = 0 /\ ni_obs[Len(ni_obs)] = 1
    /\ SumSeq(merged.obs_m) = SumSeq(ni_obs) - 1

(***************************************************************************)
(* C14: in a returned output the totals rd, ab and tt are the sums of the  *)
(* raw counts each divided by photonCount, whatever the geometric scale    *)
(* factors: all-zero raw arrays give totals 0, and a raw reflectance array *)
(* holding photonCount at bin (1,1) and 0 elsewhere gives rd = 1.          *)
(***************************************************************************)
PerPhotonTotal(raw) ==
    SumSeq([i \in 1..Rows(raw) |-> SumSeq([j \in 1..Cols(raw) |-> PerPhoton(raw[i][j])])])

AllZero(raw) == \A i \in 1..Rows(raw) : \A j \in 1..Cols(raw) : raw[i][j] = 0

OnlyFirstBin(raw, c) ==
    \A i \in 1..Rows(raw) : \A j \in 1..Cols(raw) :
        raw[i][j] = (IF i = 1 /\ j = 1 THEN c ELSE 0)

C14_TotalsArePerPhotonSums ==
    output.status = "ok" =>
        /\ output.rd = PerPhotonTotal(handed.rd_ra)
        /\ output.ab = PerPhotonTotal(handed.ab_rz)
        /\ output.tt = PerPhotonTotal(handed.tt_ra)
        /\ AllZero(handed.rd_ra) => output.rd = 0
        /\ AllZero(handed.ab_rz) => output.ab = 0
        /\ AllZero(handed.tt_ra) => output.tt = 0
        /\ OnlyFirstBin(handed.rd_ra, input_data.np) => output.rd = 1000

\* photonCount reflected photons in bin (1,1) of a grid of several bins: rd is
\* 1 although the bin's scaled value is not, and the absorption total is 0
C14_Witness ==
    /\ output.status = "ok"
    /\ ValidGrid(input_data)
    /\ input_data.nr * input_data.na > 1
    /\ OnlyFirstBin(handed.rd_ra, input_data.np)
    /\ output.rd = 1000
    /\ arrays.rd_ra[1][1] # 1000
    /\ AllZero(handed.ab_rz) /\ output.ab = 0

(***************************************************************************)
(* C16: make_one_layer gives the single layer the mean of the refractive   *)
(* indices of all four tissue layers n[1..4], the means of mua, mus and g  *)
(* over the four layers, and the sum of the four thicknesses.              *)
(***************************************************************************)
C16_OneLayerAveragesAllFour ==
    scheme_data # NoValue =>
        /\ scheme_data.n[2] = Mean(<<lm_data.n[2], lm_data.n[3], lm_data.n[4], lm_data.n[5]>>)
        /\ scheme_data.mua[1] = Mean(lm_data.mua)
        /\ scheme_data.mus[1] = Mean(lm_data.mus)
        /\ scheme_data.g[1] = Mean(lm_data.g)
        /\ scheme_data.d[1] = SumSeq(lm_data.d)

====
